---- MODULE Spec2Model ----
(***************************************************************************)
(* Eco-Verify backend (src/server.js): an Express server that proxies      *)
(* wallet operations to a remote FONE node and keeps a local Postgres      *)
(* ledger of credits and reputation per wallet address.                    *)
(*                                                                         *)
(* State: the three tables (heaps of rows, in insertion order), the SERIAL *)
(* sequence of mission_completion.id, the environment configuration, the   *)
(* requests the remote node has received, the lines written by             *)
(* console.error, and one record per request slot holding the position of  *)
(* its async handler (pc), its inputs, its locals and its response; the    *)
(* phase of the process (starting, listening, exited) and the tables the   *)
(* database schema holds.                                                  *)
(* Every awaited query is one atomic step (autocommit statements); the     *)
(* handlers interleave at their awaits.                                    *)
(***************************************************************************)
EXTENDS Integers, Sequences, FiniteSets, TLC

VARIABLES wallets, user_state, mission_completion, nextId,
          env, remoteCalls, console, req, proc, schema

dbVars == <<wallets, user_state, mission_completion, nextId>>
vars == <<wallets, user_state, mission_completion, nextId,
          env, remoteCalls, console, req, proc, schema>>

(* ------------------------------ bounds --------------------------------- *)

\* request slots of each workload
MaxStoreCalls == 3
MaxLedgerReqs == 2
MaxProxyReqs == 2
MaxCascadeReqs == 2
MaxRegisterReqs == 2
MaxHealthReqs == 3
MaxFaultyReqs == 2
MaxCrashReqs == 2
MaxStartupReqs == 2
MaxGatewayCalls == 2

Addrs == {"a1", "a2"}
\* (creditsDelta, repDelta) pairs handed to addCreditsAndReputation directly
Deltas == {<<10, 5>>, <<-3, 0>>}

(* ------------------------- texts and secrets --------------------------- *)

\* A text is a sequence of tokens; the two secrets are tokens of their own,
\* so a text contains a secret iff the token occurs in it.
BASE == "https://fone.node"
KEY == "sdk-key"

Contains(text, tok) == \E k \in DOMAIN text : text[k] = tok
Leaks(text) == Contains(text, BASE) \/ Contains(text, KEY)

(* ------------------------------ tables --------------------------------- *)

RowsOf(table, addr) == {k \in DOMAIN table : table[k].addr = addr}
HasRow(table, addr) == RowsOf(table, addr) # {}

RECURSIVE SelectSeq2(_, _, _)
\* the rows of table (from position k on) whose addr is not addr, in order
SelectSeq2(table, addr, k) ==
    IF k > Len(table) THEN <<>>
    ELSE IF table[k].addr = addr THEN SelectSeq2(table, addr, k + 1)
    ELSE <<table[k]>> \o SelectSeq2(table, addr, k + 1)

\* a plain INSERT INTO wallets: the primary key raises a unique violation
InsertWalletPlain(w, addr) ==
    IF HasRow(w, addr) THEN [err |-> <<"duplicate key">>, rows |-> w]
    ELSE [err |-> <<>>, rows |-> Append(w, [addr |-> addr])]

\* INSERT INTO wallets (addr) VALUES ($1) ON CONFLICT (addr) DO NOTHING
\* (addr is the PRIMARY KEY); the result is [err, rows]
InsertWallet(w, addr) ==
    IF HasRow(w, addr) THEN [err |-> <<>>, rows |-> w]
    ELSE [err |-> <<>>, rows |-> Append(w, [addr |-> addr])]

\* an upsert that sets the row back to its defaults:
\* ON CONFLICT (addr) DO UPDATE SET credits = DEFAULT, reputation = DEFAULT
InsertUserStateUpsert(us, w, addr) ==
    IF ~HasRow(w, addr) THEN [err |-> <<"foreign key">>, rows |-> us]
    ELSE [err |-> <<>>,
          rows |-> SelectSeq2(us, addr, 1)
                     \o <<[addr |-> addr, credits |-> 0, reputation |-> 0]>>]

\* INSERT INTO user_state (addr) VALUES ($1) ON CONFLICT (addr) DO NOTHING
\* credits and reputation take their DEFAULT 0; addr is the PRIMARY KEY and
\* REFERENCES wallets(addr)
InsertUserState(us, w, addr) ==
    IF ~HasRow(w, addr) THEN [err |-> <<"foreign key">>, rows |-> us]
    ELSE IF HasRow(us, addr) THEN [err |-> <<>>, rows |-> us]
    ELSE [err |-> <<>>,
          rows |-> Append(us, [addr |-> addr, credits |-> 0, reputation |-> 0])]

\* SET credits = $2, reputation = $3: the deltas overwrite the balance
UpdateUserStateOverwrite(us, addr, c, r) ==
    [k \in DOMAIN us |->
        IF us[k].addr = addr
        THEN [us[k] EXCEPT !.credits = c, !.reputation = r]
        ELSE us[k]]

\* an UPDATE that adds the credits and leaves the reputation
UpdateUserStateCreditsOnly(us, addr, c, r) ==
    [k \in DOMAIN us |->
        IF us[k].addr = addr THEN [us[k] EXCEPT !.credits = @ + c] ELSE us[k]]

\* UPDATE user_state SET credits = COALESCE(credits,0) + $2,
\*   reputation = COALESCE(reputation,0) + $3 WHERE addr = $1
\* (one statement; no row of the model holds a NULL)
UpdateUserState(us, addr, c, r) ==
    [k \in DOMAIN us |->
        IF us[k].addr = addr
        THEN [us[k] EXCEPT !.credits = @ + c, !.reputation = @ + r]
        ELSE us[k]]

\* the INSERT under a unique constraint on (addr, mission_id) with
\* ON CONFLICT DO NOTHING
InsertMissionCompletionUnique(mc, w, id, r) ==
    IF ~HasRow(w, r.addr) THEN [err |-> <<"foreign key">>, rows |-> mc]
    ELSE IF \E k \in RowsOf(mc, r.addr) : mc[k].mission_id = r.missionId
    THEN [err |-> <<>>, rows |-> mc]
    ELSE [err |-> <<>>,
          rows |-> Append(mc, [id |-> id, addr |-> r.addr,
                               mission_id |-> r.missionId,
                               report |-> r.report,
                               reward |-> r.rewardNum,
                               reputation |-> r.repNum])]

\* INSERT INTO mission_completion (addr, mission_id, report, reward, reputation)
\* id takes nextval of its SERIAL sequence; addr REFERENCES wallets(addr)
InsertMissionCompletion(mc, w, id, r) ==
    IF ~HasRow(w, r.addr) THEN [err |-> <<"foreign key">>, rows |-> mc]
    ELSE [err |-> <<>>,
          rows |-> Append(mc, [id |-> id, addr |-> r.addr,
                               mission_id |-> r.missionId,
                               report |-> r.report,
                               reward |-> r.rewardNum,
                               reputation |-> r.repNum])]

\* a foreign key without ON DELETE CASCADE that lets the delete through
KeepDependents(table, addr) == table

\* the rows of a referencing table left by DELETE FROM wallets WHERE addr = $1:
\* both foreign keys are declared ON DELETE CASCADE
CascadeDelete(table, addr) == SelectSeq2(table, addr, 1)

(* ----------------------------- requests -------------------------------- *)

NoData == [isNull |-> FALSE, error |-> <<>>, address |-> "", raw |-> <<>>]

\* no answer of the remote node received yet
NoResponse ==
    [failed |-> FALSE, status |-> 0, statusText |-> <<>>,
     body |-> [form |-> "empty", error |-> <<>>, address |-> "", text |-> <<>>]]

IdleReq ==
    [route |-> "", pc |-> "idle", ret |-> "",
     addr |-> "", missionId |-> "", report |-> "",
     reward |-> <<>>, reputation |-> <<>>,
     rewardNum |-> 0, repNum |-> 0,
     privateKey |-> "", recipient |-> "", amount |-> <<>>, message |-> "",
     resStatus |-> 0, data |-> NoData,
     status |-> 0, threw |-> FALSE, error |-> <<>>, credits |-> 0, rep |-> 0,
     foneConfigured |-> FALSE, dbConfigured |-> FALSE, dbOk |-> FALSE,
     probe |-> "none", res |-> NoResponse]

Slots == DOMAIN req

\* slots are taken in order: the slot numbers carry no meaning
\* requests are served once app.listen has run
NextFree(i) ==
    /\ proc.phase = "listening"
    /\ req[i].pc = "idle"
    /\ \A j \in Slots : j < i => req[j].pc # "idle"

\* async function ensureWalletRow(addr): `if (!addr) return;` then two inserts
EnterEnsureWalletRow(r, ret) ==
    IF r.addr = "" THEN [r EXCEPT !.pc = ret]
    ELSE [r EXCEPT !.pc = "ew_wallet", !.ret = ret]

FnRoutes == {"ensureWalletRow", "addCreditsAndReputation", "callFone"}

\* the body of the 500 response of each handler's catch block
GenericError(route) ==
    CASE route = "create" -> <<"Fone API error (create wallet)">>
      [] route = "import" -> <<"Fone API error (import wallet)">>
      [] route = "balance" -> <<"Fone API error (balance)">>
      [] route = "transactions" -> <<"Fone API error (transactions)">>
      [] route = "send" -> <<"Fone API error (send)">>
      [] route = "state" -> <<"DB error (user state)">>
      [] route = "mission" -> <<"DB error (mission complete)">>
      [] OTHER -> <<>>

\* An exception with message msg raised inside request r: a handler's catch
\* block answers 500 with its generic body; a bare function call rejects.
Caught(r, msg) ==
    IF r.route \in FnRoutes
    THEN [r EXCEPT !.pc = "done", !.threw = TRUE, !.error = msg]
    ELSE [r EXCEPT !.pc = "done", !.status = 500, !.error = GenericError(r.route)]

\* console.error(<route>, err.message) of the catch block
Logged(r, msg) ==
    IF r.route \in FnRoutes THEN console
    ELSE console \cup {[route |-> r.route, text |-> msg]}

\* the continuation once the UPDATE of addCreditsAndReputation has returned
AfterAddCredits(r) ==
    IF r.route = "mission" THEN [r EXCEPT !.pc = "done", !.status = 200]
    ELSE [r EXCEPT !.pc = "done"]

\* the continuation once ensureWalletRow has returned to its caller, up to
\* the caller's next await: wallet create and import answer res.json(data)
AfterEnsureWalletRow(r) ==
    [r EXCEPT !.pc = r.ret, !.ret = "",
              !.status = IF r.route \in {"create", "import"} THEN 200 ELSE @]

(* -------------------------- Gateway Client ----------------------------- *)

\* normBase: (u || '').replace(/\/+$/, '')
RECURSIVE normBase(_)
normBase(u) ==
    IF u # <<>> /\ u[Len(u)] = "/" THEN normBase(SubSeq(u, 1, Len(u) - 1)) ELSE u

\* a test that forgets the API key
FoneConfiguredUrlOnly(e) == e.FONE_BASE_URL # <<>>

\* the test of assertFoneConfigured; an unset and an empty variable are <<>>
FoneConfigured(e) == e.FONE_BASE_URL # <<>> /\ e.FONE_SDK_KEY # <<>>

NotConfiguredMessage ==
    <<"Fone API not configured (FONE_BASE_URL / FONE_SDK_KEY missing)">>

\* the request fetch sends for request r of slot i
FoneRequest(i, r, path, method, hasBody) ==
    [slot |-> i, method |-> method,
     url |-> normBase(env.FONE_BASE_URL) \o path,
     apiKey |-> env.FONE_SDK_KEY,
     contentType |-> hasBody,
     privateKey |-> IF hasBody THEN r.privateKey ELSE "",
     recipient |-> IF hasBody THEN r.recipient ELSE "",
     amount |-> IF hasBody THEN r.amount ELSE <<>>,
     message |-> IF hasBody THEN r.message ELSE ""]

\* what the remote node may answer: the node is outside the program, and it
\* has seen the URL and the api-key header of the request
ErrorFields ==
    { <<>>,                                      \* no `error` field
      << <<>> >>,                                \* error: ""
      << <<"wallet limit reached">> >>,
      << <<"key", KEY, "rejected at", BASE>> >> }

PlainBodies ==
    {[form |-> "empty", error |-> <<>>, address |-> "", text |-> <<>>],
     [form |-> "null", error |-> <<>>, address |-> "", text |-> <<>>],
     [form |-> "text", error |-> <<>>, address |-> "", text |-> <<"<html>">>]}

\* The code reads `address` only of a 2xx answer and `error` only of another
\* one, so a 2xx body varies in its address and a 500 body in its error.
RemoteOutcomes ==
    {[failed |-> TRUE, status |-> 0, statusText |-> <<>>,
      body |-> [form |-> "empty", error |-> <<>>, address |-> "", text |-> <<>>]]}
    \cup {[failed |-> FALSE, status |-> 200, statusText |-> <<"OK">>, body |-> b] :
            b \in PlainBodies \cup
                  {[form |-> "object", error |-> <<>>, address |-> a, text |-> <<>>] :
                      a \in Addrs \cup {""}}}
    \cup {[failed |-> FALSE, status |-> 500, statusText |-> t, body |-> b] :
            t \in {<<>>, <<"Internal Server Error">>},
            b \in PlainBodies \cup
                  {[form |-> "object", error |-> e, address |-> "", text |-> <<>>] :
                      e \in ErrorFields}}

\* try { data = txt ? JSON.parse(txt) : {}; } catch { data = { raw: txt }; }
ParseBody(b) ==
    CASE b.form = "empty" -> NoData
      [] b.form = "null" -> [NoData EXCEPT !.isNull = TRUE]
      [] b.form = "object" -> [NoData EXCEPT !.error = b.error, !.address = b.address]
      [] OTHER -> [NoData EXCEPT !.raw = b.text]

\* `HTTP ${res.status}`
HttpCode(status) == <<"HTTP", ToString(status)>>

\* the TypeError of reading a property of the parsed body `null`
NullRead(field) == <<"Cannot read properties of null", field>>

\* data.error || res.statusText || `HTTP ${res.status}`
ErrorMessage(data, o) ==
    IF data.isNull THEN NullRead("error")
    ELSE IF data.error # <<>> /\ data.error[1] # <<>> THEN data.error[1]
    ELSE IF o.statusText # <<>> THEN o.statusText
    ELSE HttpCode(o.status)

\* callFone once fetch has settled with outcome o: [threw, message, data]
CallFoneResult(o) ==
    IF o.failed THEN [threw |-> TRUE, message |-> <<"fetch failed">>, data |-> NoData]
    ELSE LET data == ParseBody(o.body) IN
         IF o.status # 200
         THEN [threw |-> TRUE, message |-> ErrorMessage(data, o), data |-> NoData]
         ELSE [threw |-> FALSE, message |-> <<>>, data |-> data]

(* --------------------------- Ledger Store ------------------------------ *)

\* first query of ensureWalletRow
EnsureWalletRow_InsertWallet(i) ==
    /\ req[i].pc = "ew_wallet"
    /\ LET res == InsertWallet(wallets, req[i].addr) IN
         IF res.err = <<>>
         THEN /\ wallets' = res.rows
              /\ req' = [req EXCEPT ![i].pc = "ew_state"]
              /\ UNCHANGED console
         ELSE /\ req' = [req EXCEPT ![i] = Caught(@, res.err)]
              /\ console' = Logged(req[i], res.err)
              /\ UNCHANGED wallets
    /\ UNCHANGED <<user_state, mission_completion, nextId, env, proc, schema, remoteCalls>>

\* second query of ensureWalletRow, then the return to the caller
EnsureWalletRow_InsertUserState(i) ==
    /\ req[i].pc = "ew_state"
    /\ LET res == InsertUserState(user_state, wallets, req[i].addr) IN
         IF res.err = <<>>
         THEN /\ user_state' = res.rows
              /\ req' = [req EXCEPT ![i] = AfterEnsureWalletRow(@)]
              /\ UNCHANGED console
         ELSE /\ req' = [req EXCEPT ![i] = Caught(@, res.err)]
              /\ console' = Logged(req[i], res.err)
              /\ UNCHANGED user_state
    /\ UNCHANGED <<wallets, mission_completion, nextId, env, proc, schema, remoteCalls>>

\* the UPDATE of addCreditsAndReputation, then the return to the caller
AddCreditsAndReputation_Update(i) ==
    /\ req[i].pc = "acr_update"
    /\ user_state' = UpdateUserState(user_state, req[i].addr,
                                     req[i].rewardNum, req[i].repNum)
    /\ req' = [req EXCEPT ![i] = AfterAddCredits(@)]
    /\ UNCHANGED <<wallets, mission_completion, nextId, env, proc, schema, remoteCalls, console>>

\* a caller invokes ensureWalletRow(addr)
CallEnsureWalletRow(i) ==
    /\ NextFree(i)
    /\ \E a \in Addrs \cup {""} :
         req' = [req EXCEPT ![i] =
                   EnterEnsureWalletRow(
                     [@ EXCEPT !.route = "ensureWalletRow", !.addr = a], "done")]
    /\ UNCHANGED <<dbVars, env, proc, schema, remoteCalls, console>>

\* a caller invokes addCreditsAndReputation(addr, creditsDelta, repDelta)
CallAddCreditsAndReputation(i) ==
    /\ NextFree(i)
    /\ \E a \in Addrs, d \in Deltas :
         req' = [req EXCEPT ![i] =
                   EnterEnsureWalletRow(
                     [@ EXCEPT !.route = "addCreditsAndReputation", !.addr = a,
                               !.rewardNum = d[1], !.repNum = d[2]],
                     "acr_update")]
    /\ UNCHANGED <<dbVars, env, proc, schema, remoteCalls, console>>

(* -------------------------- Ledger endpoints --------------------------- *)

MissionAddrs == Addrs \cup {""}
MissionIds == {"", "m1"}
\* the optional (reward, reputation) fields of the body
MissionPays == {<< <<>>, <<>> >>, << <<10>>, <<5>> >>}
Reports == {"report"}

\* a conversion that takes an absent field for 1
NumberOrOne(v) == IF v = <<>> THEN 1 ELSE v[1]

\* Number(v || 0) of an optional numeric body field
NumberOrZero(v) == IF v = <<>> \/ v = <<0>> THEN 0 ELSE v[1]

\* POST /api/app/mission/completed up to its first await
Mission_Receive(i) ==
    /\ NextFree(i)
    /\ \E a \in MissionAddrs, m \in MissionIds, pay \in MissionPays,
          rpt \in Reports :
         LET rw == pay[1]
             rp == pay[2]
             r == [req[i] EXCEPT !.route = "mission", !.addr = a,
                                 !.missionId = m, !.report = rpt,
                                 !.reward = rw, !.reputation = rp]
         IN  req' = [req EXCEPT ![i] =
                 IF a = "" \/ m = ""
                 THEN [r EXCEPT !.pc = "done", !.status = 400,
                                !.error = <<"addr and missionId are required">>]
                 ELSE EnterEnsureWalletRow(
                        [r EXCEPT !.rewardNum = NumberOrZero(rw),
                                  !.repNum = NumberOrZero(rp)],
                        "mc_insert")]
    /\ UNCHANGED <<dbVars, env, proc, schema, remoteCalls, console>>

\* the INSERT INTO mission_completion, then the call of addCreditsAndReputation
Mission_InsertCompletion(i) ==
    /\ req[i].pc = "mc_insert"
    /\ nextId' = nextId + 1
    /\ LET res == InsertMissionCompletion(mission_completion, wallets, nextId, req[i]) IN
         IF res.err = <<>>
         THEN /\ mission_completion' = res.rows
              /\ req' = [req EXCEPT ![i] = EnterEnsureWalletRow(@, "acr_update")]
              /\ UNCHANGED console
         ELSE /\ req' = [req EXCEPT ![i] = Caught(@, res.err)]
              /\ console' = Logged(req[i], res.err)
              /\ UNCHANGED mission_completion
    /\ UNCHANGED <<wallets, user_state, env, proc, schema, remoteCalls>>

\* GET /api/app/user/:addr/state up to its await
State_Receive(i) ==
    /\ NextFree(i)
    /\ \E a \in Addrs :
         req' = [req EXCEPT ![i] =
                   [@ EXCEPT !.route = "state", !.addr = a, !.pc = "st_select"]]
    /\ UNCHANGED <<dbVars, env, proc, schema, remoteCalls, console>>

\* a handler that answers 404 for an address without a row
StateNotFound(r, rows) ==
    IF rows = {}
    THEN [r EXCEPT !.pc = "done", !.status = 404, !.error = <<"not found">>]
    ELSE LET k == CHOOSE x \in rows : TRUE IN
         [r EXCEPT !.pc = "done", !.status = 200,
                   !.credits = user_state[k].credits,
                   !.rep = user_state[k].reputation]

\* the response of the state handler to the rows its SELECT returned:
\* zeros for no row, else Number(row.credits || 0), Number(row.reputation || 0)
\* of r.rows[0]
StateResponse(r, rows) ==
    IF rows = {}
    THEN [r EXCEPT !.pc = "done", !.status = 200, !.credits = 0, !.rep = 0]
    ELSE LET k == CHOOSE x \in rows : \A y \in rows : x <= y IN
         [r EXCEPT !.pc = "done", !.status = 200,
                   !.credits = user_state[k].credits,
                   !.rep = user_state[k].reputation]

\* SELECT credits, reputation FROM user_state WHERE addr = $1, then res.json
State_Select(i) ==
    /\ req[i].pc = "st_select"
    /\ req' = [req EXCEPT ![i] = StateResponse(@, RowsOf(user_state, req[i].addr))]
    /\ UNCHANGED <<dbVars, env, proc, schema, remoteCalls, console>>

\* DELETE FROM wallets WHERE addr = a, issued on the database by its operator
DeleteWallet(a) ==
    /\ HasRow(wallets, a)
    /\ wallets' = SelectSeq2(wallets, a, 1)
    /\ user_state' = CascadeDelete(user_state, a)
    /\ mission_completion' = CascadeDelete(mission_completion, a)
    /\ UNCHANGED <<nextId, env, proc, schema, remoteCalls, console, req>>

(* ----------------------------- Health check ---------------------------- *)

\* GET /api/health up to its await: the two flags, then the probe if a
\* database is configured, else the response with dbOk = false
Health_Receive(i) ==
    /\ NextFree(i)
    /\ LET r == [req[i] EXCEPT
                   !.route = "health",
                   !.foneConfigured =
                       (env.FONE_BASE_URL # <<>> /\ env.FONE_SDK_KEY # <<>>),
                   !.dbConfigured = (env.DATABASE_URL # <<>>)]
       IN  req' = [req EXCEPT ![i] =
                     IF r.dbConfigured THEN [r EXCEPT !.pc = "hc_probe"]
                     ELSE [r EXCEPT !.pc = "done", !.status = 200, !.dbOk = FALSE]]
    /\ UNCHANGED <<dbVars, env, proc, schema, remoteCalls, console>>

\* the response once `await query('SELECT 1')` has settled: dbOk = true after
\* the await returned, dbOk = false in the catch block
HealthAnswer(r, ok) ==
    [r EXCEPT !.pc = "done", !.status = 200, !.dbOk = ok,
              !.probe = IF ok THEN "ok" ELSE "error"]

\* the probe settles (it resolves or it rejects), then res.json
Health_ProbeSettles(i) ==
    /\ req[i].pc = "hc_probe"
    /\ \E ok \in BOOLEAN : req' = [req EXCEPT ![i] = HealthAnswer(@, ok)]
    /\ UNCHANGED <<dbVars, env, proc, schema, remoteCalls, console>>

\* the database never answers the probe: pool.query sets no timeout, so the
\* await never returns
Health_ProbeHangs(i) ==
    /\ req[i].pc = "hc_probe"
    /\ req' = [req EXCEPT ![i] = [@ EXCEPT !.pc = "hc_hung", !.probe = "hung"]]
    /\ UNCHANGED <<dbVars, env, proc, schema, remoteCalls, console>>

(* --------------------------- Proxy endpoints --------------------------- *)

\* callFone(path, method, body) up to its await of fetch, inside the try
\* block of the handler of request r
CallFone(i, r, path, method, hasBody) ==
    IF FoneConfigured(env)
    THEN /\ req' = [req EXCEPT ![i] = [r EXCEPT !.pc = "fetch"]]
         /\ remoteCalls' = remoteCalls \cup {FoneRequest(i, r, path, method, hasBody)}
         /\ UNCHANGED console
    ELSE /\ req' = [req EXCEPT ![i] = Caught(r, NotConfiguredMessage)]
         /\ console' = Logged(r, NotConfiguredMessage)
         /\ UNCHANGED remoteCalls

\* POST /api/fone/wallet/create
Create_Receive(i) ==
    /\ NextFree(i)
    /\ CallFone(i, [req[i] EXCEPT !.route = "create"],
                <<"/v1/wallet/create">>, "POST", FALSE)
    /\ UNCHANGED <<dbVars, env, proc, schema>>

\* POST /api/fone/wallet/import
Import_Receive(i) ==
    /\ NextFree(i)
    /\ \E pk \in {"", "pk"} :
         LET r == [req[i] EXCEPT !.route = "import", !.privateKey = pk] IN
         IF pk = ""
         THEN /\ req' = [req EXCEPT ![i] =
                    [r EXCEPT !.pc = "done", !.status = 400,
                              !.error = <<"privateKey required">>]]
              /\ UNCHANGED <<remoteCalls, console>>
         ELSE CallFone(i, r, <<"/v1/wallet/import">>, "POST", TRUE)
    /\ UNCHANGED <<dbVars, env, proc, schema>>

\* GET /api/fone/wallet/:addr/balance (encodeURIComponent leaves the
\* alphanumeric addresses of Addrs as they are)
Balance_Receive(i) ==
    /\ NextFree(i)
    /\ \E a \in Addrs :
         CallFone(i, [req[i] EXCEPT !.route = "balance", !.addr = a],
                  <<"/v1/wallet/", a, "/balance">>, "GET", FALSE)
    /\ UNCHANGED <<dbVars, env, proc, schema>>

\* GET /api/fone/wallet/:addr/transactions
Transactions_Receive(i) ==
    /\ NextFree(i)
    /\ \E a \in Addrs :
         CallFone(i, [req[i] EXCEPT !.route = "transactions", !.addr = a],
                  <<"/v1/wallet/", a, "/transactions">>, "GET", FALSE)
    /\ UNCHANGED <<dbVars, env, proc, schema>>

\* a validation that forgets the recipient
SendInvalidNoRecipient(r) == r.privateKey = "" \/ r.amount \in {<<>>, <<0>>}

\* the validation of the send handler: !privateKey || !recipient || !amount
SendInvalid(r) == r.privateKey = "" \/ r.recipient = "" \/ r.amount \in {<<>>, <<0>>}

\* POST /api/fone/transaction/send
Send_Receive(i) ==
    /\ NextFree(i)
    /\ \E pk \in {"", "pk"}, rcp \in {"", "a2"}, amt \in {<<>>, <<0>>, <<5>>},
          msg \in {"thanks"} :
         LET r == [req[i] EXCEPT !.route = "send", !.privateKey = pk,
                                 !.recipient = rcp, !.amount = amt,
                                 !.message = msg] IN
         IF SendInvalid(r)
         THEN /\ req' = [req EXCEPT ![i] =
                    [r EXCEPT !.pc = "done", !.status = 400,
                              !.error = <<"privateKey, recipient and amount are required">>]]
              /\ UNCHANGED <<remoteCalls, console>>
         ELSE CallFone(i, r, <<"/v1/transaction/send">>, "POST", TRUE)
    /\ UNCHANGED <<dbVars, env, proc, schema>>

\* a continuation that answers without registering the address
ProxyContinueSkipsEnsure(r, data) ==
    [r EXCEPT !.pc = "done", !.status = 200, !.data = data,
              !.addr = IF r.route \in {"create", "import"} THEN data.address ELSE @]

\* the handler's continuation once callFone has returned data, up to its
\* next await: create and import register data.address, the others answer
ProxyContinue(r, data) ==
    IF r.route \in {"create", "import"} /\ data.address # ""
    THEN EnterEnsureWalletRow([r EXCEPT !.data = data, !.addr = data.address], "done")
    ELSE [r EXCEPT !.pc = "done", !.status = 200, !.data = data]

\* fetch settles: the rest of callFone, then the handler's continuation
Fone_Respond(i) ==
    /\ req[i].pc = "fetch"
    /\ \E o \in RemoteOutcomes :
         LET res == CallFoneResult(o)
             r == [req[i] EXCEPT !.resStatus = o.status]
         IN
         IF res.threw
         THEN /\ req' = [req EXCEPT ![i] = Caught(r, res.message)]
              /\ console' = Logged(r, res.message)
         ELSE IF res.data.isNull /\ r.route \in {"create", "import"}
         THEN /\ req' = [req EXCEPT ![i] = Caught(r, NullRead("address"))]
              /\ console' = Logged(r, NullRead("address"))
         ELSE /\ req' = [req EXCEPT ![i] = ProxyContinue(r, res.data)]
              /\ UNCHANGED console
    /\ UNCHANGED <<dbVars, env, proc, schema, remoteCalls>>

\* a caller invokes callFone(path) directly
CallFone_Call(i) ==
    /\ NextFree(i)
    /\ CallFone(i, [req[i] EXCEPT !.route = "callFone"],
                <<"/v1/wallet/a1/balance">>, "GET", FALSE)
    /\ UNCHANGED <<dbVars, env, proc, schema>>

\* fetch settles for a direct caller, which keeps the answer it was given:
\* the rest of callFone, then the return or the rejection
CallFone_Settles(i) ==
    /\ req[i].pc = "fetch" /\ req[i].route = "callFone"
    /\ \E o \in RemoteOutcomes :
         LET res == CallFoneResult(o)
             r == [req[i] EXCEPT !.resStatus = o.status, !.res = o]
         IN  req' = [req EXCEPT ![i] =
                       IF res.threw THEN Caught(r, res.message)
                       ELSE [r EXCEPT !.pc = "done", !.data = res.data]]
    /\ UNCHANGED <<dbVars, env, proc, schema, remoteCalls, console>>

(* ------------------------------- startup ------------------------------- *)

\* the message of the error pool.query rejects with when the database fails
DbFailure == <<"connection terminated unexpectedly">>

\* the tables of initDb, in the order of their CREATE TABLE statements
Tables == <<"wallets", "user_state", "mission_completion">>

\* the process once initDb has resolved and app.listen has run
Listening == [phase |-> "listening", exitCode |-> 0]

\* the process while initDb awaits its k-th statement
Creating(k) == [phase |-> "create_" \o Tables[k], exitCode |-> 0]

\* CREATE TABLE IF NOT EXISTS t
CreateTable(sch, t) ==
    IF \E k \in DOMAIN sch : sch[k] = t THEN sch ELSE Append(sch, t)

\* a startup that goes on after a statement failed
InitDbStepIgnoresFailure(k, ok) ==
    IF k < Len(Tables) THEN Creating(k + 1)
    ELSE [phase |-> "initialized", exitCode |-> 0]

\* The process after the k-th statement of initDb has settled: a rejection
\* leaves initDb and reaches the .catch of startup, process.exit(1); else
\* the next statement runs, and after the last one initDb resolves.
InitDbStep(k, ok) ==
    IF ~ok THEN [phase |-> "exited", exitCode |-> 1]
    ELSE IF k < Len(Tables) THEN Creating(k + 1)
    ELSE [phase |-> "initialized", exitCode |-> 0]

\* the k-th CREATE TABLE of initDb settles
InitDb_Create(k) ==
    /\ proc = Creating(k)
    /\ \E ok \in BOOLEAN :
         /\ schema' = IF ok THEN CreateTable(schema, Tables[k]) ELSE schema
         /\ proc' = InitDbStep(k, ok)
         /\ console' = IF ok THEN console
                       ELSE console \cup {[route |-> "startup", text |-> DbFailure]}
    /\ UNCHANGED <<dbVars, env, remoteCalls, req>>

\* the .then of startup: console.log, app.listen
Startup_Listen ==
    /\ proc.phase = "initialized"
    /\ proc' = Listening
    /\ UNCHANGED <<dbVars, env, schema, remoteCalls, console, req>>

(* ------------------------------- faults -------------------------------- *)

\* the awaits of pool.query
DbPcs == {"ew_wallet", "ew_state", "mc_insert", "acr_update", "st_select"}

\* The statement request i awaits is rejected by the database and changes
\* nothing: the exception reaches the catch block of the handler it runs in.
Query_Fails(i) ==
    /\ req[i].pc \in DbPcs
    /\ req' = [req EXCEPT ![i] = Caught(@, DbFailure)]
    /\ console' = Logged(req[i], DbFailure)
    /\ UNCHANGED <<dbVars, env, proc, schema, remoteCalls>>

\* The process dies and is started again: the requests in flight are never
\* answered and run no further statement; the tables are the database's and
\* stay; initDb finds them (CREATE TABLE IF NOT EXISTS) and listen runs again.
Crash ==
    /\ \E i \in Slots : req[i].pc \notin {"idle", "done", "lost"}
    /\ req' = [i \in Slots |->
                 IF req[i].pc \in {"idle", "done", "lost"} THEN req[i]
                 ELSE [req[i] EXCEPT !.pc = "lost"]]
    /\ UNCHANGED <<dbVars, env, proc, schema, remoteCalls, console>>

(* --------------------------- specifications ---------------------------- *)

\* the state once startup has succeeded: empty tables, nothing sent or logged
InitDb ==
    /\ wallets = <<>>
    /\ user_state = <<>>
    /\ mission_completion = <<>>
    /\ nextId = 1
    /\ remoteCalls = {}
    /\ console = {}
    /\ proc = Listening
    /\ schema = Tables

Configured ==
    [FONE_BASE_URL |-> <<BASE, "/">>, FONE_SDK_KEY |-> <<KEY>>,
     DATABASE_URL |-> <<"postgres://db">>]

\* process.env: each variable unset (or empty) or set
Environments ==
    {[FONE_BASE_URL |-> b, FONE_SDK_KEY |-> k,
      DATABASE_URL |-> <<"postgres://db">>] :
        b \in {<<>>, <<BASE, "/">>}, k \in {<<>>, <<KEY>>}}

\* The Ledger Store functions called directly by concurrent callers.
InitStore ==
    /\ InitDb
    /\ env = Configured
    /\ req = [i \in 1..MaxStoreCalls |-> IdleReq]

NextStore ==
    \/ \E i \in Slots : CallEnsureWalletRow(i)
    \/ \E i \in Slots : CallAddCreditsAndReputation(i)
    \/ \E i \in Slots : EnsureWalletRow_InsertWallet(i)
    \/ \E i \in Slots : EnsureWalletRow_InsertUserState(i)
    \/ \E i \in Slots : AddCreditsAndReputation_Update(i)

SpecStore == InitStore /\ [][NextStore]_vars

\* The ledger endpoints under concurrent requests.
InitLedger ==
    /\ InitDb
    /\ env = Configured
    /\ req = [i \in 1..MaxLedgerReqs |-> IdleReq]

NextLedger ==
    \/ \E i \in Slots : Mission_Receive(i)
    \/ \E i \in Slots : Mission_InsertCompletion(i)
    \/ \E i \in Slots : State_Receive(i)
    \/ \E i \in Slots : State_Select(i)
    \/ \E i \in Slots : EnsureWalletRow_InsertWallet(i)
    \/ \E i \in Slots : EnsureWalletRow_InsertUserState(i)
    \/ \E i \in Slots : AddCreditsAndReputation_Update(i)

SpecLedger == InitLedger /\ [][NextLedger]_vars

\* Mission completions (each runs ensureWalletRow, the history INSERT and
\* addCreditsAndReputation) while wallets rows are being deleted.
InitCascade ==
    /\ InitDb
    /\ env = Configured
    /\ req = [i \in 1..MaxCascadeReqs |-> IdleReq]

NextCascade ==
    \/ \E i \in Slots : Mission_Receive(i)
    \/ \E i \in Slots : Mission_InsertCompletion(i)
    \/ \E i \in Slots : EnsureWalletRow_InsertWallet(i)
    \/ \E i \in Slots : EnsureWalletRow_InsertUserState(i)
    \/ \E i \in Slots : AddCreditsAndReputation_Update(i)
    \/ \E a \in Addrs : DeleteWallet(a)

SpecCascade == InitCascade /\ [][NextCascade]_vars

\* The proxy endpoints under every environment and every remote answer.
InitProxy ==
    /\ InitDb
    /\ env \in Environments
    /\ req = [i \in 1..MaxProxyReqs |-> IdleReq]

NextProxy ==
    \/ \E i \in Slots : Create_Receive(i)
    \/ \E i \in Slots : Import_Receive(i)
    \/ \E i \in Slots : Balance_Receive(i)
    \/ \E i \in Slots : Transactions_Receive(i)
    \/ \E i \in Slots : Send_Receive(i)
    \/ \E i \in Slots : Fone_Respond(i)
    \/ \E i \in Slots : EnsureWalletRow_InsertWallet(i)
    \/ \E i \in Slots : EnsureWalletRow_InsertUserState(i)

SpecProxy == InitProxy /\ [][NextProxy]_vars

\* Wallet import and direct registration next to mission completions.
InitRegister ==
    /\ InitDb
    /\ env = Configured
    /\ req = [i \in 1..MaxRegisterReqs |-> IdleReq]

NextRegister ==
    \/ \E i \in Slots : Import_Receive(i)
    \/ \E i \in Slots : Fone_Respond(i)
    \/ \E i \in Slots : CallEnsureWalletRow(i)
    \/ \E i \in Slots : Mission_Receive(i)
    \/ \E i \in Slots : Mission_InsertCompletion(i)
    \/ \E i \in Slots : EnsureWalletRow_InsertWallet(i)
    \/ \E i \in Slots : EnsureWalletRow_InsertUserState(i)
    \/ \E i \in Slots : AddCreditsAndReputation_Update(i)

SpecRegister == InitRegister /\ [][NextRegister]_vars

\* Wallet creation, mission completions and state reads against a database
\* that may reject any statement.
InitFaulty ==
    /\ InitDb
    /\ env = Configured
    /\ req = [i \in 1..MaxFaultyReqs |-> IdleReq]

NextFaulty ==
    \/ \E i \in Slots : Create_Receive(i)
    \/ \E i \in Slots : Fone_Respond(i)
    \/ \E i \in Slots : Mission_Receive(i)
    \/ \E i \in Slots : Mission_InsertCompletion(i)
    \/ \E i \in Slots : State_Receive(i)
    \/ \E i \in Slots : State_Select(i)
    \/ \E i \in Slots : EnsureWalletRow_InsertWallet(i)
    \/ \E i \in Slots : EnsureWalletRow_InsertUserState(i)
    \/ \E i \in Slots : AddCreditsAndReputation_Update(i)
    \/ \E i \in Slots : Query_Fails(i)

SpecFaulty == InitFaulty /\ [][NextFaulty]_vars

\* Mission completions against a database that may reject any statement, in
\* a process that may die at any await.
InitCrash ==
    /\ InitDb
    /\ env = Configured
    /\ req = [i \in 1..MaxCrashReqs |-> IdleReq]

NextCrash ==
    \/ \E i \in Slots : Mission_Receive(i)
    \/ \E i \in Slots : Mission_InsertCompletion(i)
    \/ \E i \in Slots : EnsureWalletRow_InsertWallet(i)
    \/ \E i \in Slots : EnsureWalletRow_InsertUserState(i)
    \/ \E i \in Slots : AddCreditsAndReputation_Update(i)
    \/ \E i \in Slots : Query_Fails(i)
    \/ Crash

SpecCrash == InitCrash /\ [][NextCrash]_vars

\* Startup against a database that holds none, some or all of the tables
\* and may reject any statement, then the ledger endpoints once listening.
InitStartup ==
    /\ wallets = <<>>
    /\ user_state = <<>>
    /\ mission_completion = <<>>
    /\ nextId = 1
    /\ remoteCalls = {}
    /\ console = {}
    /\ proc = Creating(1)
    /\ schema \in {SubSeq(Tables, 1, n) : n \in 0..Len(Tables)}
    /\ env = Configured
    /\ req = [i \in 1..MaxStartupReqs |-> IdleReq]

NextStartup ==
    \/ \E k \in DOMAIN Tables : InitDb_Create(k)
    \/ Startup_Listen
    \/ \E i \in Slots : Mission_Receive(i)
    \/ \E i \in Slots : Mission_InsertCompletion(i)
    \/ \E i \in Slots : State_Receive(i)
    \/ \E i \in Slots : State_Select(i)
    \/ \E i \in Slots : EnsureWalletRow_InsertWallet(i)
    \/ \E i \in Slots : EnsureWalletRow_InsertUserState(i)
    \/ \E i \in Slots : AddCreditsAndReputation_Update(i)

SpecStartup == InitStartup /\ [][NextStartup]_vars

\* The Gateway Client called directly, under every answer of the remote node.
InitGateway ==
    /\ InitDb
    /\ env = Configured
    /\ req = [i \in 1..MaxGatewayCalls |-> IdleReq]

NextGateway ==
    \/ \E i \in Slots : CallFone_Call(i)
    \/ \E i \in Slots : CallFone_Settles(i)

SpecGateway == InitGateway /\ [][NextGateway]_vars

\* process.env with DATABASE_URL set or not
HealthEnvironments ==
    {[FONE_BASE_URL |-> b, FONE_SDK_KEY |-> k, DATABASE_URL |-> d] :
        b \in {<<>>, <<BASE, "/">>}, k \in {<<>>, <<KEY>>},
        d \in {<<>>, <<"postgres://db">>}}

\* The health check under every environment and every behaviour of the
\* database. Requests arrive when clients send them; a probe that has been
\* issued does not stay undecided: the database answers it or never will.
InitHealth ==
    /\ InitDb
    /\ env \in HealthEnvironments
    /\ req = [i \in 1..MaxHealthReqs |-> IdleReq]

NextHealth ==
    \/ \E i \in Slots : Health_Receive(i)
    \/ \E i \in Slots : Health_ProbeSettles(i)
    \/ \E i \in Slots : Health_ProbeHangs(i)

SpecHealth ==
    /\ InitHealth
    /\ [][NextHealth]_vars
    /\ \A i \in 1..MaxHealthReqs :
          WF_vars(Health_ProbeSettles(i) \/ Health_ProbeHangs(i))

(* ----------------------------- properties ------------------------------ *)

\* the direct addCreditsAndReputation calls for address a that have returned
Applied(a) ==
    {i \in Slots : /\ req[i].route = "addCreditsAndReputation"
                   /\ req[i].addr = a
                   /\ req[i].pc = "done"
                   /\ ~req[i].threw}

RECURSIVE SumCredits(_)
SumCredits(S) ==
    IF S = {} THEN 0
    ELSE LET i == CHOOSE x \in S : TRUE IN req[i].rewardNum + SumCredits(S \ {i})

RECURSIVE SumReputation(_)
SumReputation(S) ==
    IF S = {} THEN 0
    ELSE LET i == CHOOSE x \in S : TRUE IN req[i].repNum + SumReputation(S \ {i})

\* C1: whatever the order and interleaving of the addCreditsAndReputation
\* calls, none of them fails, and once at least one call for an address has
\* returned the address has one user_state row whose credits and reputation
\* are the sums of the deltas of all the calls that have returned.
C1_AdditiveUpdatesSum ==
    /\ \A i \in Slots :
          req[i].route = "addCreditsAndReputation" /\ req[i].pc = "done"
            => ~req[i].threw
    /\ \A a \in Addrs :
          Applied(a) # {} =>
            /\ Cardinality(RowsOf(user_state, a)) = 1
            /\ \A k \in RowsOf(user_state, a) :
                  /\ user_state[k].credits = SumCredits(Applied(a))
                  /\ user_state[k].reputation = SumReputation(Applied(a))

\* two calls with different deltas for one address have both returned
C1_Witness ==
    \E i, j \in Applied("a1") :
        /\ req[i].rewardNum = 10 /\ req[j].rewardNum = -3
        /\ \E k \in RowsOf(user_state, "a1") :
              user_state[k].credits = SumCredits(Applied("a1"))

\* C2: no state holds two wallets rows or two user_state rows of one
\* address; every ensureWalletRow call returns without an error, and once
\* it has returned its address has exactly one row in each table.
C2_EnsureWalletRowOnce ==
    /\ \A a \in Addrs :
          /\ Cardinality(RowsOf(wallets, a)) <= 1
          /\ Cardinality(RowsOf(user_state, a)) <= 1
    /\ \A i \in Slots :
          req[i].route = "ensureWalletRow" /\ req[i].pc = "done" =>
            /\ ~req[i].threw
            /\ req[i].addr # "" =>
                  /\ Cardinality(RowsOf(wallets, req[i].addr)) = 1
                  /\ Cardinality(RowsOf(user_state, req[i].addr)) = 1

\* two ensureWalletRow calls for one address have both returned
C2_Witness ==
    \E i, j \in Slots :
        /\ i # j
        /\ req[i].route = "ensureWalletRow" /\ req[j].route = "ensureWalletRow"
        /\ req[i].addr = "a1" /\ req[j].addr = "a1"
        /\ req[i].pc = "done" /\ req[j].pc = "done"
        /\ Cardinality(RowsOf(wallets, "a1")) = 1

\* a mission-completed request answered {ok: true}
MissionOk(i) ==
    req[i].route = "mission" /\ req[i].pc = "done" /\ req[i].status = 200

\* request k has passed validation and writes rows of address a
WritesTo(k, a) ==
    /\ req[k].route \in {"mission", "addCreditsAndReputation", "ensureWalletRow"}
    /\ req[k].addr = a
    /\ ~(req[k].pc = "done" /\ req[k].status = 400)

SameArguments(i, j) ==
    /\ req[i].addr = req[j].addr
    /\ req[i].missionId = req[j].missionId
    /\ req[i].report = req[j].report
    /\ req[i].reward = req[j].reward
    /\ req[i].reputation = req[j].reputation

\* the mission_completion rows of address a that carry the arguments of request i
RowsLike(i, a) ==
    {k \in RowsOf(mission_completion, a) :
        /\ mission_completion[k].mission_id = req[i].missionId
        /\ mission_completion[k].report = req[i].report
        /\ mission_completion[k].reward = req[i].rewardNum
        /\ mission_completion[k].reputation = req[i].repNum}

\* C3: when two mission-completed requests with identical arguments have both
\* been answered {ok: true}, and no other request wrote to their address, the
\* address has two mission_completion rows with those arguments and its
\* credits and reputation are twice the reward and the reputation.
C3_NoDeduplication ==
    \A i, j \in Slots :
        ( /\ i # j
          /\ MissionOk(i) /\ MissionOk(j)
          /\ SameArguments(i, j)
          /\ \A k \in Slots \ {i, j} : ~WritesTo(k, req[i].addr) )
        => LET a == req[i].addr IN
           /\ Cardinality(RowsOf(mission_completion, a)) = 2
           /\ RowsLike(i, a) = RowsOf(mission_completion, a)
           /\ Cardinality(RowsOf(user_state, a)) = 1
           /\ \A k \in RowsOf(user_state, a) :
                 /\ user_state[k].credits = 2 * req[i].rewardNum
                 /\ user_state[k].reputation = 2 * req[i].repNum

\* two identical requests with reward 10 and reputation 5 were answered
C3_Witness ==
    \E i, j \in Slots :
        /\ i # j
        /\ MissionOk(i) /\ MissionOk(j)
        /\ SameArguments(i, j)
        /\ req[i].reward = <<10>> /\ req[i].reputation = <<5>>
        /\ \E k \in RowsOf(user_state, req[i].addr) :
              user_state[k].credits = 20 /\ user_state[k].reputation = 10

\* request g's SELECT is answered in this step
StateAnswered(g) == req[g].pc = "st_select" /\ req'[g].pc = "done"

\* C4: when the state of an address is read after one mission completion for
\* it was answered {ok: true}, no other request having written to the
\* address, the answer is 200 with credits = reward and reputation =
\* reputation, and the address has exactly one mission_completion row, which
\* carries the mission id, reward and reputation of the request.
C4_RecordThenGetState ==
    [][ \A g, m \in Slots :
          ( /\ StateAnswered(g)
            /\ MissionOk(m) /\ req[m].addr = req[g].addr
            /\ \A k \in Slots \ {m} : ~WritesTo(k, req[m].addr) )
          => /\ req'[g].status = 200
             /\ req'[g].credits = req[m].rewardNum
             /\ req'[g].rep = req[m].repNum
             /\ Cardinality(RowsOf(mission_completion, req[m].addr)) = 1
             /\ RowsLike(m, req[m].addr) = RowsOf(mission_completion, req[m].addr)
      ]_vars

\* a state request answered 10 and 5 after the one completion of its address
C4_Witness ==
    \E g, m \in Slots :
        /\ req[g].route = "state" /\ req[g].pc = "done"
        /\ MissionOk(m) /\ req[m].addr = req[g].addr
        /\ req[m].reward = <<10>> /\ req[m].reputation = <<5>>
        /\ req[g].status = 200 /\ req[g].credits = 10 /\ req[g].rep = 5
        /\ Cardinality(RowsOf(mission_completion, req[m].addr)) = 1

\* C5: a state request whose address has no user_state row when its SELECT
\* runs is answered 200 with credits 0 and reputation 0, and no step of a
\* state request changes a table.
C5_StateDefaultsToZero ==
    [][ \A g \in Slots :
          /\ ( StateAnswered(g) /\ ~HasRow(user_state, req[g].addr) )
               => /\ req'[g].status = 200
                  /\ req'[g].credits = 0
                  /\ req'[g].rep = 0
          /\ ( req'[g] # req[g] /\ req'[g].route = "state" )
               => dbVars' = dbVars
      ]_vars

\* a state request was answered zeros for an address whose wallets row exists
\* and whose user_state row does not
C5_Witness ==
    \E g \in Slots :
        /\ req[g].route = "state" /\ req[g].pc = "done"
        /\ req[g].status = 200 /\ req[g].credits = 0 /\ req[g].rep = 0
        /\ HasRow(wallets, req[g].addr)
        /\ ~HasRow(user_state, req[g].addr)

ReferentialIntegrity ==
    /\ \A k \in DOMAIN user_state : HasRow(wallets, user_state[k].addr)
    /\ \A k \in DOMAIN mission_completion :
          HasRow(wallets, mission_completion[k].addr)

\* C6: in every state each user_state row and each mission_completion row
\* has a wallets row of its address, and a step that removes the wallets row
\* of an address leaves no user_state or mission_completion row of it.
C6_ReferentialIntegrity ==
    /\ []ReferentialIntegrity
    /\ [][ \A a \in Addrs :
              ( HasRow(wallets, a) /\ ~HasRow(wallets', a) )
              => /\ ~HasRow(user_state', a)
                 /\ ~HasRow(mission_completion', a)
         ]_vars

\* a wallet with a balance and a history row was deleted while another
\* address keeps its rows
C6_Witness ==
    /\ ~HasRow(wallets, "a1")
    /\ \E i \in Slots : MissionOk(i) /\ req[i].addr = "a1"
    /\ HasRow(mission_completion, "a2")
    /\ HasRow(user_state, "a2")

\* request i runs a query of ensureWalletRow in this step
EnsureStep(i) == req[i].pc \in {"ew_wallet", "ew_state"} /\ req'[i] # req[i]

\* C7: a query of ensureWalletRow that runs while the wallets row and the
\* user_state row of its address exist raises no error and changes no row of
\* wallets, user_state or mission_completion, so credits and reputation stay.
C7_EnsureWalletRowKeepsBalance ==
    [][ \A i \in Slots :
          ( /\ EnsureStep(i)
            /\ HasRow(wallets, req[i].addr)
            /\ HasRow(user_state, req[i].addr) )
          => /\ wallets' = wallets
             /\ user_state' = user_state
             /\ mission_completion' = mission_completion
             /\ ~req'[i].threw
             /\ req'[i].status # 500
      ]_vars

\* a wallet import registered an address that holds 10 credits
C7_Witness ==
    \E i, m \in Slots :
        /\ req[i].route = "import" /\ req[i].pc = "done" /\ req[i].status = 200
        /\ req[i].data.address = "a1"
        /\ MissionOk(m) /\ req[m].addr = "a1"
        /\ \E k \in RowsOf(user_state, "a1") :
              user_state[k].credits = 10 /\ user_state[k].reputation = 5

\* the body of send request i lacks privateKey, recipient or amount
SendLacksField(i) ==
    req[i].privateKey = "" \/ req[i].recipient = "" \/ req[i].amount = <<>>

\* C8: a send request that lacks privateKey, recipient or amount is answered
\* 400 at once and the remote node never receives a request of it.
C8_SendRejectedBeforeRemoteCall ==
    \A i \in Slots :
        ( req[i].route = "send" /\ SendLacksField(i) )
        => /\ req[i].pc = "done"
           /\ req[i].status = 400
           /\ \A c \in remoteCalls : c.slot # i

\* a configured server rejected a send request that lacks only its recipient
C8_Witness ==
    \E i \in Slots :
        /\ env = Configured
        /\ req[i].route = "send" /\ req[i].pc = "done"
        /\ req[i].privateKey = "pk" /\ req[i].recipient = "" /\ req[i].amount = <<5>>
        /\ req[i].status = 400

\* C9: when the remote node answers a wallet-create call with HTTP 500, the
\* endpoint answers 500 with its generic body, and neither that body nor any
\* line the create handler logs holds the base URL or the API key.
C9_CreateFailureKeepsSecrets ==
    \A i \in Slots :
        ( req[i].route = "create" /\ req[i].resStatus = 500 )
        => /\ req[i].pc = "done"
           /\ req[i].status = 500
           /\ req[i].error = GenericError("create")
           /\ ~Leaks(req[i].error)
           /\ \A l \in console : l.route = "create" => ~Leaks(l.text)

\* base URL or API key missing from the environment
EnvIncomplete == env.FONE_BASE_URL = <<>> \/ env.FONE_SDK_KEY = <<>>

\* C10: with the base URL or the API key not configured, the remote node
\* receives no request, the tables stay as they were, and every proxy
\* request that passed validation is answered 500 after logging the
\* not-configured error, the only error ever logged.
C10_NotConfiguredFailsBeforeFetch ==
    EnvIncomplete =>
        /\ remoteCalls = {}
        /\ wallets = <<>> /\ user_state = <<>> /\ mission_completion = <<>>
        /\ \A l \in console : l.text = NotConfiguredMessage
        /\ \A i \in Slots :
              req[i].pc # "idle" =>
                /\ req[i].pc = "done"
                /\ \/ req[i].status = 400
                   \/ /\ req[i].status = 500
                      /\ [route |-> req[i].route, text |-> NotConfiguredMessage]
                            \in console

\* with the base URL set and the API key missing a create request failed
C10_Witness ==
    \E i \in Slots :
        /\ env.FONE_BASE_URL # <<>> /\ env.FONE_SDK_KEY = <<>>
        /\ req[i].route = "create" /\ req[i].pc = "done" /\ req[i].status = 500
        /\ remoteCalls = {}

\* the response of health request i carries the right flags, and dbOk only
\* after a probe that succeeded
HealthAnswered(i) ==
    /\ req[i].pc = "done" /\ req[i].status = 200
    /\ req[i].foneConfigured = ~EnvIncomplete
    /\ req[i].dbConfigured = (env.DATABASE_URL # <<>>)
    /\ req[i].dbOk => req[i].probe = "ok"

\* C11: whatever the database does during the probe (it succeeds, fails or
\* never answers), every health request is eventually answered with the
\* right foneConfigured and dbConfigured, and with dbOk true only if the
\* probe succeeded.
C11_HealthAlwaysAnswers ==
    \A i \in 1..MaxHealthReqs :
        (req[i].route = "health") ~> HealthAnswered(i)

\* the generic bodies that name a database error
DbErrorBodies == {<<"DB error (user state)">>, <<"DB error (mission complete)">>}

\* C12: a database error raised while a request of any endpoint is handled,
\* the ensureWalletRow of wallet creation after a successful remote call
\* included, is answered 500 with a generic "DB error" body that holds
\* nothing of the underlying error.
C12_DbErrorIsGeneric500 ==
    [][ \A i \in Slots :
          ( req[i].pc \in DbPcs /\ req'[i].pc = "done" /\ req'[i].status # 200 )
          => /\ req'[i].status = 500
             /\ req'[i].error \in DbErrorBodies
             /\ req'[i].error # DbFailure
      ]_vars

\* C13: a request is accepted only by a listening process, a process listens
\* only with all three tables created, a process that exited has a non-zero
\* exit status and has accepted no request, and a step in which a CREATE
\* TABLE of initDb fails ends the process with a non-zero status.
C13_ListenAfterSchema ==
    /\ [] /\ (\E i \in Slots : req[i].pc # "idle") => proc.phase = "listening"
          /\ proc.phase \in {"initialized", "listening"} => schema = Tables
          /\ proc.phase = "exited" =>
                /\ proc.exitCode # 0
                /\ \A i \in Slots : req[i].pc = "idle"
    /\ [][ \A k \in DOMAIN Tables :
              ( proc = Creating(k) /\ proc' # proc
                /\ ~(\E j \in DOMAIN schema' : schema'[j] = Tables[k]) )
              => proc'.phase = "exited" /\ proc'.exitCode # 0
         ]_vars

\* a mission completion was answered by a process that created all tables
C13_Witness ==
    /\ proc.phase = "listening"
    /\ schema = Tables
    /\ \E i \in Slots : MissionOk(i)

\* mission request i arrives in this step
MissionArrives(i) == req[i].pc = "idle" /\ req'[i].route = "mission"

\* mission request i carries addr and missionId and neither reward nor
\* reputation
MissionWithoutPay(i) ==
    /\ req[i].route = "mission"
    /\ req[i].addr # "" /\ req[i].missionId # ""
    /\ req[i].reward = <<>> /\ req[i].reputation = <<>>

\* C14: a mission request that lacks addr or missionId is answered 400 on
\* arrival and changes no table; the INSERT of a request with addr and
\* missionId and without reward and reputation appends one history row with
\* reward 0 and reputation 0, and no step of such a request changes the
\* credits or the reputation of a row.
C14_MissionValidationAndDefaults ==
    [][ \A i \in Slots :
          /\ ( MissionArrives(i) /\ (req'[i].addr = "" \/ req'[i].missionId = "") )
               => /\ req'[i].pc = "done"
                  /\ req'[i].status = 400
                  /\ dbVars' = dbVars
          /\ ( MissionWithoutPay(i) /\ req[i].pc = "mc_insert" /\ req'[i] # req[i] )
               => /\ Len(mission_completion') = Len(mission_completion) + 1
                  /\ SubSeq(mission_completion', 1, Len(mission_completion))
                        = mission_completion
                  /\ LET row == mission_completion'[Len(mission_completion')] IN
                        /\ row.addr = req[i].addr
                        /\ row.mission_id = req[i].missionId
                        /\ row.reward = 0
                        /\ row.reputation = 0
          /\ ( MissionWithoutPay(i) /\ req'[i] # req[i] )
               => /\ \A k \in DOMAIN user_state : user_state'[k] = user_state[k]
                  /\ \A k \in DOMAIN user_state' \ DOMAIN user_state :
                        user_state'[k].credits = 0 /\ user_state'[k].reputation = 0
                  /\ req'[i].status # 500
      ]_vars

\* a request without reward and reputation was answered {ok: true} for an
\* address that holds 10 credits: it has a history row with zeros, and the
\* balance is as it was
C14_Witness ==
    \E i \in Slots :
        /\ MissionOk(i) /\ MissionWithoutPay(i)
        /\ \E k \in RowsOf(mission_completion, req[i].addr) :
              /\ mission_completion[k].reward = 0
              /\ mission_completion[k].reputation = 0
        /\ \E k \in RowsOf(user_state, req[i].addr) :
              user_state[k].credits = 10 /\ user_state[k].reputation = 5

\* the message the error policy derives from answer o: the `error` field of
\* the body if it has one, else the status phrase if it is not empty, else
\* "HTTP <code>"
PolicyMessage(o) ==
    IF o.body.form = "object" /\ o.body.error # <<>> /\ o.body.error[1] # <<>>
    THEN o.body.error[1]
    ELSE IF o.statusText # <<>> THEN o.statusText
    ELSE <<"HTTP", ToString(o.status)>>

\* C15: for every non-success status and every body (empty, JSON of any
\* shape, not JSON) callFone returns no value and fails with exactly the
\* message of the error policy, never with another error.
C15_ErrorPolicyTotal ==
    \A i \in Slots :
        ( /\ req[i].route = "callFone" /\ req[i].pc = "done"
          /\ ~req[i].res.failed /\ req[i].res.status # 200 )
        => /\ req[i].threw
           /\ req[i].data = NoData
           /\ req[i].error = PolicyMessage(req[i].res)

\* no mission-completed request is between its arrival and its answer
Quiescent ==
    \A i \in Slots : req[i].route = "mission" => req[i].pc \in {"done", "lost"}

\* the credits and the reputation of address a as the state endpoint reads
\* them: those of its user_state row, zeros without a row
CreditsOf(a) ==
    IF HasRow(user_state, a)
    THEN user_state[CHOOSE k \in RowsOf(user_state, a) : TRUE].credits ELSE 0

ReputationOf(a) ==
    IF HasRow(user_state, a)
    THEN user_state[CHOOSE k \in RowsOf(user_state, a) : TRUE].reputation ELSE 0

\* the sums of reward and of reputation over the mission_completion rows S
RECURSIVE SumReward(_)
SumReward(S) ==
    IF S = {} THEN 0
    ELSE LET k == CHOOSE x \in S : TRUE IN
         mission_completion[k].reward + SumReward(S \ {k})

RECURSIVE SumRowReputation(_)
SumRowReputation(S) ==
    IF S = {} THEN 0
    ELSE LET k == CHOOSE x \in S : TRUE IN
         mission_completion[k].reputation + SumRowReputation(S \ {k})

\* C16: in every state with no mission completion in flight, of a run
\* without crash, store failure and wallet deletion, the credits of each
\* address are the sum of reward over its mission_completion rows and its
\* reputation is the sum of their reputation (zeros without rows).
C16_BalanceIsSumOfHistory ==
    Quiescent =>
        \A a \in Addrs :
            /\ Cardinality(RowsOf(user_state, a)) <= 1
            /\ CreditsOf(a) = SumReward(RowsOf(mission_completion, a))
            /\ ReputationOf(a) = SumRowReputation(RowsOf(mission_completion, a))

\* both requests were answered, and an address has two history rows, one
\* with reward 10 and reputation 5 and one with zeros
C16_Witness ==
    /\ Quiescent
    /\ \A i \in Slots : req[i].pc = "done"
    /\ Cardinality(RowsOf(mission_completion, "a1")) = 2
    /\ CreditsOf("a1") = 10 /\ ReputationOf("a1") = 5

\* the mission requests for address a whose UPDATE has run
AppliedMissions(a) == {i \in Slots : MissionOk(i) /\ req[i].addr = a}

\* C17: in every state of a run without wallet deletion, after a crash or a
\* store failure between the two writes included, the balance updates applied
\* to an address are no more than its history rows, and its credits and
\* reputation are the sums of reward and reputation over some of its rows;
\* the step that applies an update finds the history row of its request stored.
C17_HistoryBeforeBalance ==
    /\ [] \A a \in Addrs :
            /\ Cardinality(AppliedMissions(a))
                  <= Cardinality(RowsOf(mission_completion, a))
            /\ \E S \in SUBSET RowsOf(mission_completion, a) :
                  /\ Cardinality(S) = Cardinality(AppliedMissions(a))
                  /\ CreditsOf(a) = SumReward(S)
                  /\ ReputationOf(a) = SumRowReputation(S)
    /\ [][ \A i \in Slots :
              ( req[i].route = "mission" /\ req[i].pc = "acr_update"
                /\ req'[i] # req[i] /\ req'[i].pc = "done" /\ req'[i].status = 200 )
              => RowsLike(i, req[i].addr) # {}
         ]_vars

\* the process died between the INSERT and the UPDATE of a request with
\* reward 10: its history row is stored, its delta is not applied, and the
\* address holds only the 10 credits of another, answered, request
C17_Witness ==
    \E i, j \in Slots :
        /\ req[i].route = "mission" /\ req[i].pc = "lost"
        /\ req[i].addr = "a1" /\ req[i].reward = <<10>>
        /\ MissionOk(j) /\ req[j].addr = "a1" /\ req[j].reward = <<10>>
        /\ Cardinality(RowsOf(mission_completion, "a1")) = 2
        /\ CreditsOf("a1") = 10

\* the remote call of request i returned a body with an address
RemoteGaveAddress(i) ==
    /\ req[i].route \in {"create", "import"}
    /\ req[i].resStatus = 200
    /\ req[i].data.address # ""

\* C18: a table changes only in a step of a create or import request whose
\* remote call has succeeded and returned an address; no step of a balance,
\* transactions or send request changes a table; and a create or import
\* request answered with the remote response that carries an address has
\* completed ensureWalletRow: the wallets row and the user_state row of the
\* address exist.
C18_ProxyTouchesStoreAfterAddress ==
    /\ [][ /\ dbVars' # dbVars =>
                \E i \in Slots : req'[i] # req[i] /\ RemoteGaveAddress(i)
           /\ \A i \in Slots :
                ( req'[i] # req[i]
                  /\ req'[i].route \in {"balance", "transactions", "send"} )
                => dbVars' = dbVars
         ]_vars
    /\ [] \A i \in Slots :
            ( RemoteGaveAddress(i) /\ req[i].pc = "done" /\ req[i].status = 200 )
            => /\ HasRow(wallets, req[i].data.address)
               /\ HasRow(user_state, req[i].data.address)

\* a create request was answered with the address a1 and its rows are
\* stored, while an import whose remote call failed left no row
C18_Witness ==
    \E i, j \in Slots :
        /\ req[i].route = "create" /\ req[i].pc = "done" /\ req[i].status = 200
        /\ req[i].data.address = "a1"
        /\ req[j].route = "import" /\ req[j].pc = "done" /\ req[j].resStatus = 500
        /\ Len(wallets) = 1 /\ Len(user_state) = 1
        /\ HasRow(wallets, "a1") /\ HasRow(user_state, "a1")

\* the rows of table t other than row k are the same in the next state
OthersKept(t, tNext, k) ==
    /\ DOMAIN tNext = DOMAIN t
    /\ \A j \in DOMAIN t \ {k} : tNext[j] = t[j]

\* C19: whatever other requests for the same address run in between, the
\* INSERT step of a mission request appends exactly one history row, with
\* the arguments of the request, and changes no balance; the step that
\* answers {ok: true} adds exactly the reward and the reputation of the
\* request to exactly one user_state row, that of its address, and changes
\* no other row; so a request answered {ok: true} has its history row, and
\* with no request in flight each address has as many rows as answered
\* requests.
C19_OkMeansOneRowOneIncrement ==
    /\ [][ \A i \in Slots :
              /\ ( req[i].route = "mission" /\ req[i].pc = "mc_insert"
                   /\ req'[i] # req[i] )
                   => /\ Len(mission_completion') = Len(mission_completion) + 1
                      /\ SubSeq(mission_completion', 1, Len(mission_completion))
                            = mission_completion
                      /\ RowsLike(i, req[i].addr)' =
                            RowsLike(i, req[i].addr) \cup {Len(mission_completion')}
                      /\ user_state' = user_state
              /\ ( req[i].route = "mission" /\ req'[i] # req[i] /\ MissionOk(i)' )
                   => /\ req[i].pc = "acr_update"
                      /\ mission_completion' = mission_completion
                      /\ Cardinality(RowsOf(user_state, req[i].addr)) = 1
                      /\ \A k \in RowsOf(user_state, req[i].addr) :
                            /\ user_state'[k].credits =
                                  user_state[k].credits + req[i].rewardNum
                            /\ user_state'[k].reputation =
                                  user_state[k].reputation + req[i].repNum
                            /\ user_state'[k].addr = req[i].addr
                            /\ OthersKept(user_state, user_state', k)
         ]_vars
    /\ [] /\ \A i \in Slots : MissionOk(i) => RowsLike(i, req[i].addr) # {}
          /\ Quiescent =>
                \A a \in Addrs :
                    Cardinality(RowsOf(mission_completion, a))
                      = Cardinality(AppliedMissions(a))

\* two requests for one address, one with reward 10 and reputation 5 and one
\* with neither, were both answered {ok: true}
C19_Witness ==
    \E i, j \in Slots :
        /\ MissionOk(i) /\ MissionOk(j)
        /\ req[i].addr = req[j].addr
        /\ req[i].reward = <<10>> /\ req[j].reward = <<>>
        /\ RowsLike(i, req[i].addr) # {} /\ RowsLike(j, req[j].addr) # {}
        /\ CreditsOf(req[i].addr) = 10 /\ ReputationOf(req[i].addr) = 5

====
